---------------------------- MODULE Spec2Model ----------------------------
(* Model of src/modules/nodeSync.js: the NodeSync singleton, its promise   *)
(* chain, its poll timers, its in-flight RPC calls and the skip listener.  *)
(* Every callback that the event loop runs on its own turn (a timer, an    *)
(* RPC continuation, a promise handler, an IPC event) is one action.       *)
EXTENDS Integers, Sequences, FiniteSets, Bags, TLC

(* ------------------------------ bounds ------------------------------ *)
MaxSessions == 2      \* promise chains start() may create
MaxCalls == 2         \* RPC calls the poll loops may issue in total
MaxPending == 1       \* queued start() continuations of the Connected handler

(* ------------------------- program constants ------------------------ *)
SYNC_CHECK_INTERVAL_MS == 2000
MethodNotFound == -32601
StaleSeconds == 60

Sessions == 1..MaxSessions
EventNames == {"starting", "nodeSyncing", "finished", "error", "stopped"}
NodeStates == {"STARTING", "CONNECTED", "STOPPING", "STOPPED"}

\* replies of ethereumNode.send('eth_syncing'): ret.result, or a rejection
SyncReplies ==
  { [kind |-> "result", result |-> "null", code |-> 0],
    [kind |-> "result", result |-> "status", code |-> 0],
    [kind |-> "result", result |-> "error", code |-> MethodNotFound],
    [kind |-> "result", result |-> "error", code |-> -32000],
    [kind |-> "reject", result |-> "null", code |-> 0] }

\* values of Math.floor(new Date().getTime() / 1000) in the block continuation
Clock == {1000, 5000}

\* replies of ethereumNode.send('eth_getBlockByNumber'): ret2.result (with
\* the block's timestamp), or a rejection
BlockReplies ==
  { [kind |-> "result", block |-> FALSE, timestamp |-> 0],
    [kind |-> "result", block |-> TRUE, timestamp |-> 880],
    [kind |-> "result", block |-> TRUE, timestamp |-> 939],
    [kind |-> "result", block |-> TRUE, timestamp |-> 940],
    [kind |-> "result", block |-> TRUE, timestamp |-> 995],
    [kind |-> "result", block |-> TRUE, timestamp |-> 4940],
    [kind |-> "reject", block |-> FALSE, timestamp |-> 0] }

VARIABLES
  syncPromise,     \* this._syncPromise: 0 (falsy) or the id of the stored chain
  syncInProgress,  \* this._syncInProgress
  onSyncDone,      \* this._onSyncDone: 0 or the session whose resolve it is
  onSyncError,     \* this._onSyncError: 0 or the session whose reject it is
  skipListeners,   \* listeners registered on ipc 'backendAction_skipSync'
  timers,          \* pending timeouts, all of the same delay, so they run
                   \* in the order they were set
  rpcs,            \* bag of RPC calls sent to the node and not yet answered
  sessions,        \* per chain created by start(): promise state
  emitted,         \* per session: how often each event was emitted
  nextId,          \* chains created so far
  calls,           \* RPC calls issued so far
  pendingStarts,   \* start() continuations of stop().then(...) ready to run
  returned         \* what the step returned when it was a start() call, else 0

vars == << syncPromise, syncInProgress, onSyncDone, onSyncError, skipListeners,
           timers, rpcs, sessions, emitted, nextId, calls, pendingStarts,
           returned >>

fields == << syncPromise, syncInProgress, onSyncDone, onSyncError >>

NoSession ==
  [resolution |-> "none", err |-> "none", pos |-> "none",
   outer |-> "none", stop |-> "none"]

\* tally of the 'nodeSyncing' events whose argument was the empty (falsy)
\* result of eth_syncing instead of a sync status
NullProgress == "nodeSyncing(null)"

NoEvents == [e \in EventNames \cup {NullProgress} |-> 0]

Init ==
  /\ syncPromise = 0
  /\ syncInProgress = FALSE
  /\ onSyncDone = 0
  /\ onSyncError = 0
  /\ skipListeners = 0
  /\ timers = << >>
  /\ rpcs = EmptyBag
  /\ sessions = [s \in Sessions |-> NoSession]
  /\ emitted = [s \in Sessions |-> NoEvents]
  /\ nextId = 0
  /\ calls = 0
  /\ pendingStarts = 0
  /\ returned = 0

(* ------------------------------ helpers ----------------------------- *)
\* this.emit(e), attributed to session s
Emit(em, s, e) ==
  IF s \in Sessions THEN [em EXCEPT ![s][e] = @ + 1] ELSE em

\* resolve() of session s's promise: a settled promise stays as it is
Resolve(ss, s, kind) ==
  IF s \in Sessions /\ ss[s].resolution = "pending"
  THEN [ss EXCEPT ![s].resolution = kind]
  ELSE ss

\* reject(err) of session s's promise
Reject(ss, s, e) ==
  IF s \in Sessions /\ ss[s].resolution = "pending"
  THEN [ss EXCEPT ![s].resolution = "error", ![s].err = e]
  ELSE ss

\* _.delay(..., SYNC_CHECK_INTERVAL_MS) of _sync(), run for session s's loop
PollTimer(s) ==
  [kind |-> "poll", sess |-> s, restart |-> FALSE,
   ms |-> SYNC_CHECK_INTERVAL_MS]

\* Q.delay(SYNC_CHECK_INTERVAL_MS) of stop()
StopTimer(s, restart) ==
  [kind |-> "stop", sess |-> s, restart |-> restart,
   ms |-> SYNC_CHECK_INTERVAL_MS]

\* a call sent by the loop that session s started, while u was the stored
\* promise (0 when none was)
Rpc(method, s, u) == [method |-> method, sess |-> s, under |-> u]

\* calls of that method sent by session s's loop that are in the bag
CallsInFlight(method, s, bag) ==
  LET own == {r \in BagToSet(bag) : r.method = method /\ r.sess = s}
  IN  BagCardinality([r \in own |-> CopiesIn(r, bag)])


(* --------------------------- NodeSync methods ------------------------ *)
\* a _clearState() that leaves the skip listener registered
ClearStateKeepsListener ==
  /\ skipListeners' = skipListeners
  /\ syncInProgress' = FALSE
  /\ syncPromise' = 0
  /\ onSyncDone' = 0
  /\ onSyncError' = 0

\* _clearState(): removeAllListeners, then all four fields set to false
ClearState ==
  /\ skipListeners' = 0
  /\ syncInProgress' = FALSE
  /\ syncPromise' = 0
  /\ onSyncDone' = 0
  /\ onSyncError' = 0

\* start(), first branch: a stored promise is handed back
StartExisting ==
  /\ returned' = syncPromise
  /\ UNCHANGED << fields, skipListeners, timers, rpcs, sessions, emitted,
                  nextId, calls >>

\* a start() that announces the session before it checks the connection
StartNotConnectedAnnounced(s) ==
  /\ sessions' = [sessions EXCEPT ![s] =
        [resolution |-> "error", err |-> "NotConnected", pos |-> "then",
         outer |-> "pending", stop |-> "none"]]
  /\ syncPromise' = s
  /\ emitted' = Emit(emitted, s, "starting")
  /\ UNCHANGED << syncInProgress, onSyncDone, onSyncError, skipListeners,
                  timers >>

\* start(), Q.try body throwing: the chain is born rejected and is stored
StartNotConnected(s) ==
  /\ sessions' = [sessions EXCEPT ![s] =
        [resolution |-> "error", err |-> "NotConnected", pos |-> "then",
         outer |-> "pending", stop |-> "none"]]
  /\ syncPromise' = s
  /\ UNCHANGED << syncInProgress, onSyncDone, onSyncError, skipListeners,
                  timers, emitted >>

\* start(), the executor of new Q(...), then the assignment of the chain
StartSession(s) ==
  /\ syncInProgress' = TRUE
  /\ onSyncDone' = s
  /\ onSyncError' = s
  /\ emitted' = Emit(emitted, s, "starting")
  /\ skipListeners' = skipListeners + 1
  /\ timers' = Append(timers, PollTimer(s))
  /\ sessions' = [sessions EXCEPT ![s] =
        [resolution |-> "pending", err |-> "none", pos |-> "then",
         outer |-> "pending", stop |-> "none"]]
  /\ syncPromise' = s

\* a start() without the guard on the stored promise
StartBodyUnguarded(isIpcConnected) ==
  /\ nextId < MaxSessions
  /\ nextId' = nextId + 1
  /\ returned' = nextId + 1
  /\ IF ~isIpcConnected
     THEN StartNotConnected(nextId + 1)
     ELSE StartSession(nextId + 1)
  /\ UNCHANGED << rpcs, calls >>

StartBody(isIpcConnected) ==
  IF syncPromise # 0
  THEN StartExisting
  ELSE /\ nextId < MaxSessions
       /\ nextId' = nextId + 1
       /\ returned' = nextId + 1
       /\ IF ~isIpcConnected
          THEN StartNotConnected(nextId + 1)
          ELSE StartSession(nextId + 1)
       /\ UNCHANGED << rpcs, calls >>

\* a stop() that does not look at _syncInProgress
StopBodyUnguarded(restart) ==
  /\ ClearState
  /\ timers' = Append(timers, StopTimer(syncPromise, restart))
  /\ sessions' = IF syncPromise \in Sessions
                 THEN [sessions EXCEPT ![syncPromise].stop = "delay"]
                 ELSE sessions
  /\ UNCHANGED << rpcs, emitted, nextId, calls, pendingStarts >>
  /\ returned' = 0

\* stop(), with restart = TRUE when the caller chained .then(() => this.start())
StopBody(restart) ==
  IF ~syncInProgress
  THEN /\ IF restart
          THEN /\ pendingStarts < MaxPending
               /\ pendingStarts' = pendingStarts + 1
          ELSE UNCHANGED pendingStarts
       /\ UNCHANGED << fields, skipListeners, timers, rpcs, sessions, emitted,
                       nextId, calls >>
       /\ returned' = 0
  ELSE /\ ClearState
       /\ timers' = Append(timers, StopTimer(syncPromise, restart))
       /\ sessions' = IF syncPromise \in Sessions
                      THEN [sessions EXCEPT ![syncPromise].stop = "delay"]
                      ELSE sessions
       /\ UNCHANGED << rpcs, emitted, nextId, calls, pendingStarts >>
       /\ returned' = 0

\* a continuation that logs the failure and leaves the promise alone
ContinuationErrorIgnored(e) == sessions

\* this._onSyncError(err) in the .catch of the RPC chain; a false field throws
\* a TypeError out of the handler, which nothing catches
ContinuationError(e) ==
  IF onSyncError # 0 THEN Reject(sessions, onSyncError, e) ELSE sessions

\* a continuation that treats code -32601 like every other error payload
ContinuationDoneAsError == ContinuationError("UnexpectedRpcPayload")

\* return this._onSyncDone() in an RPC continuation; a false field throws a
\* TypeError, which the chain's .catch hands to this._onSyncError
ContinuationDone ==
  IF onSyncDone # 0
  THEN Resolve(sessions, onSyncDone, "done")
  ELSE ContinuationError("TypeError")

(* ------------------------------ actions ----------------------------- *)
\* a caller outside the module calls start()
Start ==
  /\ \E isIpcConnected \in BOOLEAN : StartBody(isIpcConnected)
  /\ UNCHANGED pendingStarts

\* the continuation of stop().then(() => { this.start(); }) runs
RunPendingStart ==
  /\ pendingStarts > 0
  /\ pendingStarts' = pendingStarts - 1
  /\ \E isIpcConnected \in BOOLEAN : StartBody(isIpcConnected)

\* a caller outside the module calls stop()
Stop == StopBody(FALSE)

\* _onNodeStateChanged(state)
NodeStateChanged(state) ==
  CASE state = "STOPPING" -> StopBody(FALSE)
    [] state = "CONNECTED" -> StopBody(TRUE)
    [] OTHER -> /\ returned' = 0
                /\ UNCHANGED << fields, skipListeners, timers, rpcs, sessions,
                                emitted, nextId, calls,
                                pendingStarts >>

\* ipc emits 'backendAction_skipSync': every registered listener runs
SkipSync ==
  /\ skipListeners > 0
  /\ skipListeners' = 0
  /\ sessions' = Resolve(sessions, onSyncDone, "skipped")
  /\ UNCHANGED << fields, timers, rpcs, emitted, nextId, calls,
                  pendingStarts >>
  /\ returned' = 0

\* a timer callback that ends the loop whether or not a session is in progress
PollTimerFiresAndEnds ==
  /\ timers # << >>
  /\ Head(timers).kind = "poll"
  /\ timers' = Tail(timers)
  /\ UNCHANGED << rpcs, calls >>
  /\ UNCHANGED << fields, skipListeners, sessions, emitted, nextId,
                  pendingStarts >>
  /\ returned' = 0

\* the callback of _sync()'s _.delay runs
PollTimerFires ==
  /\ timers # << >>
  /\ Head(timers).kind = "poll"
  /\ timers' = Tail(timers)
  /\ IF ~syncInProgress
     THEN UNCHANGED << rpcs, calls >>
     ELSE /\ calls < MaxCalls
          /\ calls' = calls + 1
          /\ rpcs' = rpcs (+) SetToBag({Rpc("eth_syncing", Head(timers).sess,
                                             syncPromise)})
  /\ UNCHANGED << fields, skipListeners, sessions, emitted, nextId,
                  pendingStarts >>
  /\ returned' = 0

\* stop()'s Q.delay elapses: 'stopped' is emitted and stop()'s promise resolves
StopTimerFires ==
  /\ timers # << >>
  /\ Head(timers).kind = "stop"
  /\ timers' = Tail(timers)
  /\ emitted' = Emit(emitted, Head(timers).sess, "stopped")
  /\ sessions' = IF Head(timers).sess \in Sessions
                 THEN [sessions EXCEPT ![Head(timers).sess].stop = "resolved"]
                 ELSE sessions
  /\ pendingStarts' = IF Head(timers).restart
                      THEN pendingStarts + 1 ELSE pendingStarts
  /\ UNCHANGED << fields, skipListeners, rpcs, nextId, calls >>
  /\ returned' = 0

\* an eth_syncing continuation that takes a sync status as the end of the sync
SyncingContinuationStatusEnds(r, reply) ==
  /\ r.method = "eth_syncing"
  /\ IF reply.kind = "reject"
     THEN /\ sessions' = ContinuationError("RpcFailure")
          /\ rpcs' = rpcs (-) SetToBag({r})
          /\ UNCHANGED << emitted, timers, calls >>
     ELSE IF reply.result # "null"
     THEN IF reply.result = "error"
          THEN /\ sessions' = IF reply.code = MethodNotFound
                              THEN ContinuationDone
                              ELSE ContinuationError("UnexpectedRpcPayload")
               /\ rpcs' = rpcs (-) SetToBag({r})
               /\ UNCHANGED << emitted, timers, calls >>
          ELSE /\ emitted' = Emit(emitted, r.sess, "nodeSyncing")
               /\ sessions' = ContinuationDone
               /\ rpcs' = rpcs (-) SetToBag({r})
               /\ UNCHANGED << timers, calls >>
     ELSE /\ calls < MaxCalls
          /\ calls' = calls + 1
          /\ rpcs' = (rpcs (-) SetToBag({r}))
                       (+) SetToBag({Rpc("eth_getBlockByNumber", r.sess,
                                         syncPromise)})
          /\ UNCHANGED << sessions, emitted, timers >>
  /\ UNCHANGED << fields, skipListeners, nextId, pendingStarts >>
  /\ returned' = 0

\* the continuation of send('eth_syncing', []) runs with the node's reply
SyncingContinuation(r, reply) ==
  /\ r.method = "eth_syncing"
  /\ IF reply.kind = "reject"
     THEN /\ sessions' = ContinuationError("RpcFailure")
          /\ rpcs' = rpcs (-) SetToBag({r})
          /\ UNCHANGED << emitted, timers, calls >>
     ELSE IF reply.result # "null"
     THEN IF reply.result = "error"
          THEN /\ sessions' = IF reply.code = MethodNotFound
                              THEN ContinuationDone
                              ELSE ContinuationError("UnexpectedRpcPayload")
               /\ rpcs' = rpcs (-) SetToBag({r})
               /\ UNCHANGED << emitted, timers, calls >>
          ELSE /\ emitted' = Emit(emitted, r.sess, "nodeSyncing")
               /\ timers' = Append(timers, PollTimer(r.sess))
               /\ rpcs' = rpcs (-) SetToBag({r})
               /\ UNCHANGED << sessions, calls >>
     ELSE /\ calls < MaxCalls
          /\ calls' = calls + 1
          /\ rpcs' = (rpcs (-) SetToBag({r}))
                       (+) SetToBag({Rpc("eth_getBlockByNumber", r.sess,
                                         syncPromise)})
          /\ UNCHANGED << sessions, emitted, timers >>
  /\ UNCHANGED << fields, skipListeners, nextId, pendingStarts >>
  /\ returned' = 0

\* a block continuation for which a block exactly 60 seconds old is stale
BlockContinuationStaleAt60(r, reply, now) ==
  /\ r.method = "eth_getBlockByNumber"
  /\ rpcs' = rpcs (-) SetToBag({r})
  /\ IF reply.kind = "reject"
     THEN /\ sessions' = ContinuationError("RpcFailure")
          /\ UNCHANGED << emitted, timers >>
     ELSE IF ~reply.block
     THEN /\ timers' = Append(timers, PollTimer(r.sess))
          /\ UNCHANGED << sessions, emitted >>
     ELSE IF now - reply.timestamp >= StaleSeconds
     THEN /\ emitted' = Emit(Emit(emitted, r.sess, "nodeSyncing"),
                            r.sess, NullProgress)
          /\ timers' = Append(timers, PollTimer(r.sess))
          /\ UNCHANGED sessions
     ELSE /\ sessions' = ContinuationDone
          /\ UNCHANGED << emitted, timers >>
  /\ UNCHANGED << fields, skipListeners, nextId, calls,
                  pendingStarts >>
  /\ returned' = 0

\* the continuation of send('eth_getBlockByNumber', ['latest', false]) runs
BlockContinuation(r, reply, now) ==
  /\ r.method = "eth_getBlockByNumber"
  /\ rpcs' = rpcs (-) SetToBag({r})
  /\ IF reply.kind = "reject"
     THEN /\ sessions' = ContinuationError("RpcFailure")
          /\ UNCHANGED << emitted, timers >>
     ELSE IF ~reply.block
     THEN /\ timers' = Append(timers, PollTimer(r.sess))
          /\ UNCHANGED << sessions, emitted >>
     ELSE IF now - reply.timestamp > StaleSeconds
     THEN /\ emitted' = Emit(Emit(emitted, r.sess, "nodeSyncing"),
                            r.sess, NullProgress)
          /\ timers' = Append(timers, PollTimer(r.sess))
          /\ UNCHANGED sessions
     ELSE /\ sessions' = ContinuationDone
          /\ UNCHANGED << emitted, timers >>
  /\ UNCHANGED << fields, skipListeners, nextId, calls,
                  pendingStarts >>
  /\ returned' = 0

SyncingReply ==
  \E r \in BagToSet(rpcs) : \E reply \in SyncReplies :
     SyncingContinuation(r, reply)

BlockReply ==
  \E r \in BagToSet(rpcs) : \E reply \in BlockReplies : \E now \in Clock :
     BlockContinuation(r, reply, now)

\* the .then / .catch handler of the chain of session s runs; emit('error')
\* throws the error when no 'error' listener is registered
ChainSettled(s, errorListener) ==
  /\ sessions[s].pos = "then"
  /\ sessions[s].resolution \in {"done", "skipped", "error"}
  /\ IF sessions[s].resolution = "error"
     THEN /\ emitted' = Emit(emitted, s, "error")
          /\ sessions' = [sessions EXCEPT ![s].pos =
                            IF errorListener THEN "finally" ELSE "finallyThrown"]
     ELSE /\ emitted' = Emit(emitted, s, "finished")
          /\ sessions' = [sessions EXCEPT ![s].pos = "finally"]
  /\ UNCHANGED << fields, skipListeners, timers, rpcs, nextId, calls, pendingStarts >>
  /\ returned' = 0

\* a chain whose .catch handler hands the error on after emitting it
ChainFinallyRethrown(s) ==
  /\ sessions[s].pos \in {"finally", "finallyThrown"}
  /\ ClearState
  /\ sessions' = [sessions EXCEPT
        ![s].pos = "done",
        ![s].outer = IF sessions[s].resolution # "error"
                     THEN "fulfilled" ELSE "rejected"]
  /\ UNCHANGED << timers, rpcs, emitted, nextId, calls, pendingStarts >>
  /\ returned' = 0

\* a .finally handler that only logs
ChainFinallyKeepsState(s) ==
  /\ sessions[s].pos \in {"finally", "finallyThrown"}
  /\ sessions' = [sessions EXCEPT
        ![s].pos = "done",
        ![s].outer = IF sessions[s].pos = "finally"
                     THEN "fulfilled" ELSE "rejected"]
  /\ UNCHANGED << fields, skipListeners, timers, rpcs, emitted, nextId, calls,
                  pendingStarts >>
  /\ returned' = 0

\* the .finally handler of the chain of session s runs, settling the chain
ChainFinally(s) ==
  /\ sessions[s].pos \in {"finally", "finallyThrown"}
  /\ ClearState
  /\ sessions' = [sessions EXCEPT
        ![s].pos = "done",
        ![s].outer = IF sessions[s].pos = "finally"
                     THEN "fulfilled" ELSE "rejected"]
  /\ UNCHANGED << timers, rpcs, emitted, nextId, calls,
                  pendingStarts >>
  /\ returned' = 0

Next ==
  \/ Start
  \/ RunPendingStart
  \/ Stop
  \/ \E state \in NodeStates : NodeStateChanged(state)
  \/ SkipSync
  \/ PollTimerFires
  \/ StopTimerFires
  \/ SyncingReply
  \/ BlockReply
  \/ \E s \in Sessions : \E l \in BOOLEAN : ChainSettled(s, l)
  \/ \E s \in Sessions : ChainFinally(s)

Spec == Init /\ [][Next]_vars


\* a settled promise runs its handlers: the .then/.catch handler and the
\* .finally handler of every chain are run once they can be
HandlersRun ==
  \A s \in Sessions :
     /\ WF_vars(\E l \in BOOLEAN : ChainSettled(s, l))
     /\ WF_vars(ChainFinally(s))

FairSpec == Spec /\ HandlersRun

(* ------------- the monitor left alone with a node that catches up ---------- *)
\* No stop() and no node-state event; every call is answered and none is
\* rejected. The node may answer with a sync status, a missing or stale block
\* or an error payload only as long as the call budget MaxCalls leaves room
\* for the poll that follows, so that from some point on it answers -32601 or
\* an empty status and a fresh block; a session is started only when a call is
\* left for its first poll.
CallLeft ==
  calls + Cardinality({i \in DOMAIN timers : timers[i].kind = "poll"})
    < MaxCalls

QuietStart ==
  /\ \E isIpcConnected \in BOOLEAN :
        /\ (syncPromise = 0 /\ isIpcConnected) => CallLeft
        /\ StartBody(isIpcConnected)
  /\ UNCHANGED pendingStarts

QuietSyncingReply ==
  \E r \in BagToSet(rpcs) : \E reply \in SyncReplies :
     /\ reply.kind = "result"
     /\ reply.result \in {"status", "null"} => CallLeft
     /\ SyncingContinuation(r, reply)

QuietBlockReply ==
  \E r \in BagToSet(rpcs) : \E reply \in BlockReplies : \E now \in Clock :
     /\ reply.kind = "result"
     /\ (~reply.block \/ now - reply.timestamp > StaleSeconds) => CallLeft
     /\ BlockContinuation(r, reply, now)

QuietNext ==
  \/ QuietStart
  \/ SkipSync
  \/ PollTimerFires
  \/ QuietSyncingReply
  \/ QuietBlockReply
  \/ \E s \in Sessions : \E l \in BOOLEAN : ChainSettled(s, l)
  \/ \E s \in Sessions : ChainFinally(s)

\* timers fire, calls are answered, promise handlers run
QuietFairness ==
  /\ WF_vars(PollTimerFires)
  /\ WF_vars(QuietSyncingReply)
  /\ WF_vars(QuietBlockReply)
  /\ HandlersRun

QuietSpec == Init /\ [][QuietNext]_vars /\ QuietFairness

(* ------------------------- derived quantities ----------------------- *)
Methods == {"eth_syncing", "eth_getBlockByNumber"}
Settled == {"done", "skipped", "error"}
Terminal == {"finished", "error", "stopped"}

PollTimersPending ==
  Cardinality({i \in DOMAIN timers : timers[i].kind = "poll"})

StopDelayPending == \E i \in DOMAIN timers : timers[i].kind = "stop"

RpcsInFlight == BagCardinality(rpcs)

\* the step is a call of start()
IsStartCall == returned' # 0

\* the step issues an RPC call in the loop that session s started
IssuesCallFor(s) ==
  \E m \in Methods : CallsInFlight(m, s, rpcs') > CallsInFlight(m, s, rpcs)

\* the step runs the continuation of an RPC call of session s's loop
AnswersCallOf(s) ==
  \E m \in Methods : CallsInFlight(m, s, rpcs') < CallsInFlight(m, s, rpcs)

TerminalEvents(s) ==
  emitted[s]["finished"] + emitted[s]["error"] + emitted[s]["stopped"]

(* ------------------------------- C1 --------------------------------- *)
\* the stored fields describe one session: its promise, its two callbacks,
\* at most one skip listener, one 'starting'
OneActiveSession ==
  syncInProgress =>
    /\ syncPromise \in Sessions
    /\ onSyncDone = syncPromise
    /\ onSyncError = syncPromise
    /\ skipListeners <= 1
    /\ sessions[syncPromise].resolution # "none"
    /\ emitted[syncPromise]["starting"] = 1

\* C1: at most one session is active (the fields of the monitor hold one
\* session, started once), and a start() call made while a session is active
\* returns that session's promise, emits nothing, registers no listener,
\* schedules no timer and creates no chain.
C1_AtMostOneSession ==
  [][ /\ OneActiveSession'
      /\ (IsStartCall /\ syncInProgress) =>
            /\ returned' = syncPromise
            /\ UNCHANGED << fields, skipListeners, timers, rpcs, sessions,
                            emitted, nextId >> ]_vars

\* a start() call has handed back a session that had already reported progress
C1_Witness ==
  /\ returned # 0
  /\ syncInProgress
  /\ returned = syncPromise
  /\ emitted[returned]["nodeSyncing"] > 0

(* ------------------------------- C2 --------------------------------- *)
\* C2: at most one poll tick is outstanding: pending poll timers and RPC
\* calls in flight number at most one together.
C2_OneTickOutstanding == PollTimersPending + RpcsInFlight <= 1

(* ------------------------------- C3 --------------------------------- *)
\* C3: a resolution, once set, stays as it is, and no step issues an RPC call
\* (sync-status or latest-block) in the loop of a session that is resolved.
C3_NoCallAfterResolution ==
  [][ \A s \in Sessions :
        sessions[s].resolution \in Settled =>
          /\ sessions'[s].resolution = sessions[s].resolution
          /\ ~IssuesCallFor(s) ]_vars


(* ------------------------------- C4 --------------------------------- *)
\* the chain of session s has run to its end, or the stop() that ended it
\* has resolved
SessionEnded(s) == sessions[s].pos = "done" \/ sessions[s].stop = "resolved"

\* C4: a started session emits at most one of 'finished', 'error' and
\* 'stopped', and exactly one once it has ended.
C4_ExactlyOneTerminal ==
  \A s \in Sessions :
    emitted[s]["starting"] = 1 =>
      /\ TerminalEvents(s) <= 1
      /\ SessionEnded(s) => TerminalEvents(s) = 1

(* ------------------------------- C5 --------------------------------- *)
\* C5: once the skip signal has resolved a session, no step emits
\* 'nodeSyncing' in that session's loop, and the session emits 'finished',
\* never 'error'.
C5_NoProgressAfterSkip ==
  [][ \A s \in Sessions :
        sessions[s].resolution = "skipped" =>
          /\ emitted'[s]["nodeSyncing"] = emitted[s]["nodeSyncing"]
          /\ emitted'[s]["error"] = 0
          /\ sessions'[s].pos \in {"finally", "done"} =>
                emitted'[s]["finished"] = 1 ]_vars

(* ------------------------------- C6 --------------------------------- *)
\* the step is stop() called on the active session s
StopsSession(s) ==
  /\ syncInProgress
  /\ syncPromise = s
  /\ sessions[s].stop = "none"
  /\ sessions'[s].stop = "delay"

\* the step runs the callback of a poll timer that session s had scheduled
\* before its stop(): the timer is ahead of the stop delay in the queue
ScheduledTickOfStoppedFires(s) ==
  /\ timers # << >>
  /\ Head(timers) = PollTimer(s)
  /\ timers' = Tail(timers)
  /\ \E i \in DOMAIN timers : timers[i].kind = "stop" /\ timers[i].sess = s

\* the step is the end of the grace delay of session s's stop()
GraceDelayElapses(s) ==
  /\ timers # << >>
  /\ Head(timers).kind = "stop"
  /\ Head(timers).sess = s
  /\ timers' = Tail(timers)

\* C6: stop() on an active session clears the state at once; a poll timer
\* scheduled before it fires without an event and without an RPC call;
\* 'stopped' is emitted only when the grace delay elapses, and stop()'s
\* promise is resolved only with that emission made.
C6_StopSilencesScheduledTick ==
  [][ \A s \in Sessions :
        /\ StopsSession(s) =>
              /\ ~syncInProgress' /\ syncPromise' = 0
              /\ onSyncDone' = 0 /\ onSyncError' = 0 /\ skipListeners' = 0
        /\ ScheduledTickOfStoppedFires(s) =>
              /\ emitted' = emitted
              /\ rpcs' = rpcs
        /\ emitted'[s]["stopped"] # emitted[s]["stopped"] =>
              GraceDelayElapses(s)
        /\ sessions'[s].stop = "resolved" => emitted'[s]["stopped"] = 1 ]_vars

(* ------------------------------- C7 --------------------------------- *)
\* the promise start() returned for chain s is settled
OuterSettled(s) == sessions[s].outer \in {"fulfilled", "rejected"}

NotConnectedChain(s) == sessions[s].err = "NotConnected"

\* the step is a start() call that created chain s with the node not connected
FailedStart(s) ==
  /\ IsStartCall
  /\ nextId' = s
  /\ nextId = s - 1
  /\ NotConnectedChain(s)'

RestartCreatesSession ==
  /\ pendingStarts' = pendingStarts - 1
  /\ nextId' = nextId + 1

\* C9: when the start() of the Connected handler runs, no grace delay of an
\* earlier stop() is pending and no poll timer or RPC call of an earlier
\* session is left.
C9_RestartFromIdle ==
  [][ RestartCreatesSession =>
        /\ ~StopDelayPending
        /\ PollTimersPending = 0
        /\ RpcsInFlight = 0 ]_vars

(* ------------------------------- C10 -------------------------------- *)
\* session s was stopped and no session was started after it, so every RPC
\* call of its loop still in flight was issued before the stop()
StoppedWithCallInFlight(s) ==
  /\ sessions[s].stop # "none"
  /\ nextId = s
  /\ \E m \in Methods : CallsInFlight(m, s, rpcs) > 0

\* C10: the continuation of an RPC call that was in flight when stop() was
\* called emits nothing, issues no RPC call and schedules no timer.
C10_StoppedContinuationIsNoOp ==
  [][ \A s \in Sessions :
        (StoppedWithCallInFlight(s) /\ AnswersCallOf(s)) =>
          /\ emitted' = emitted
          /\ timers' = timers
          /\ ~IssuesCallFor(s) ]_vars

(* ------------------------------- C11 -------------------------------- *)
\* session s is the stored session, in progress, its promise not settled
ActiveUnresolved(s) ==
  /\ syncInProgress
  /\ syncPromise = s
  /\ sessions[s].resolution = "pending"

\* nothing of the loop that session s started is left: no poll timer of it is
\* pending and no RPC call of it is in flight
LoopEnded(s) ==
  /\ \A i \in DOMAIN timers :
        ~(timers[i].kind = "poll" /\ timers[i].sess = s)
  /\ \A m \in Methods : CallsInFlight(m, s, rpcs) = 0

\* a reply of eth_syncing that is a failure: the call was rejected, or the
\* result carries an error whose code is not -32601
IsFailure(reply) ==
  \/ reply.kind = "reject"
  \/ reply.kind = "result" /\ reply.result = "error" /\ reply.code # -32601

ErrorOf(reply) ==
  IF reply.kind = "reject" THEN "RpcFailure" ELSE "UnexpectedRpcPayload"

\* a state in which a session ended on an error payload of eth_syncing:
\* 'error' once, no 'finished', its loop gone
C11_Witness ==
  \E s \in Sessions :
     /\ sessions[s].resolution = "error"
     /\ sessions[s].err = "UnexpectedRpcPayload"
     /\ sessions[s].pos = "done"
     /\ emitted[s]["error"] = 1
     /\ emitted[s]["finished"] = 0
     /\ LoopEnded(s)

\* C11: when the continuation of a call of the active, unresolved session
\* gets a failure (a rejected eth_syncing or eth_getBlockByNumber call, or an
\* eth_syncing error other than -32601), the session's promise is rejected
\* with that error, nothing is emitted by the continuation and the session's
\* loop is over: no poll timer and no RPC call of it is left, and none comes
\* back. A session that ended on an error never emits 'finished', and emits
\* 'error' exactly once, when its .catch handler runs.
C11_FailureEndsSessionErrored ==
  [][ /\ \A r \in BagToSet(rpcs) : \A reply \in SyncReplies :
           ( /\ ActiveUnresolved(r.sess)
             /\ IsFailure(reply)
             /\ SyncingContinuation(r, reply) )
           => /\ sessions'[r.sess].resolution = "error"
              /\ sessions'[r.sess].err = ErrorOf(reply)
              /\ emitted' = emitted
              /\ LoopEnded(r.sess)'
      /\ \A r \in BagToSet(rpcs) : \A reply \in BlockReplies :
         \A now \in Clock :
           ( /\ ActiveUnresolved(r.sess)
             /\ reply.kind = "reject"
             /\ BlockContinuation(r, reply, now) )
           => /\ sessions'[r.sess].resolution = "error"
              /\ sessions'[r.sess].err = "RpcFailure"
              /\ emitted' = emitted
              /\ LoopEnded(r.sess)'
      /\ \A s \in Sessions :
           sessions[s].resolution = "error"
           => /\ sessions'[s].resolution = "error"
              /\ sessions'[s].err = sessions[s].err
              /\ emitted'[s]["finished"] = 0
              /\ emitted'[s]["error"] =
                   IF sessions'[s].pos = "then" THEN 0 ELSE 1
              /\ LoopEnded(s) => LoopEnded(s)'
    ]_vars

(* ------------------------------- C12 -------------------------------- *)
IsMethodNotFound(reply) ==
  reply.kind = "result" /\ reply.result = "error" /\ reply.code = -32601

\* a state in which the only session there was got -32601 as the reply of the
\* only call made: 'starting' and 'finished' once each, nothing else
C12_Witness ==
  /\ nextId = 1
  /\ calls = 1
  /\ sessions[1].resolution = "done"
  /\ sessions[1].pos = "done"
  /\ LoopEnded(1)
  /\ emitted[1] = [NoEvents EXCEPT !["starting"] = 1, !["finished"] = 1]

\* C12: when the eth_syncing continuation of the active, unresolved session
\* gets a result carrying error code -32601, the session's promise is resolved,
\* the continuation emits nothing and issues no call, and the session's loop is
\* over for good. From then on the session emits no 'nodeSyncing' and no
\* 'error', its 'finished' comes exactly once (from the .then handler), after
\* the one 'starting', and 'stopped' only when stop() was called: after a
\* first reply of -32601 the events are 'starting', 'finished'.
C12_MethodNotFoundFinishes ==
  [][ /\ \A r \in BagToSet(rpcs) : \A reply \in SyncReplies :
           ( /\ ActiveUnresolved(r.sess)
             /\ IsMethodNotFound(reply)
             /\ SyncingContinuation(r, reply) )
           => /\ sessions'[r.sess].resolution = "done"
              /\ emitted' = emitted
              /\ calls' = calls
              /\ LoopEnded(r.sess)'
      /\ \A s \in Sessions :
           (sessions[s].resolution = "done" /\ LoopEnded(s))
           => /\ sessions'[s].resolution = "done"
              /\ LoopEnded(s)'
              /\ emitted'[s]["starting"] = 1
              /\ emitted'[s]["nodeSyncing"] = emitted[s]["nodeSyncing"]
              /\ emitted'[s]["error"] = 0
              /\ emitted'[s]["finished"] =
                   IF sessions'[s].pos = "then" THEN 0 ELSE 1
              /\ sessions'[s].stop = "none" => emitted'[s]["stopped"] = 0
    ]_vars

(* ------------------------------- C13 -------------------------------- *)
\* the step is the block continuation run for call r, with this reply and clock
BlockAnswered(r, reply, now) ==
  /\ reply.kind = "result"
  /\ BlockContinuation(r, reply, now)

\* a state in which the only session there was finished on a block that was
\* at most 60 seconds old, after two calls and without any 'nodeSyncing'
C13_Witness ==
  /\ nextId = 1
  /\ calls = 2
  /\ sessions[1].resolution = "done"
  /\ sessions[1].pos = "done"
  /\ emitted[1] = [NoEvents EXCEPT !["starting"] = 1, !["finished"] = 1]

\* C13: an empty eth_syncing result makes the continuation send
\* eth_getBlockByNumber, and nothing else. Its continuation, with
\* age = now - timestamp: without a block it sets one poll timer and emits
\* nothing; with age > 60 it emits one 'nodeSyncing' and sets one poll timer,
\* resolving nothing; with age <= 60 (60 included) it emits nothing, sets no
\* timer and, for the active unresolved session, resolves its promise.
C13_BlockAgeDecides ==
  [][ /\ \A r \in BagToSet(rpcs) : \A reply \in SyncReplies :
           ( /\ reply.kind = "result"
             /\ reply.result = "null"
             /\ SyncingContinuation(r, reply) )
           => /\ rpcs' = (rpcs (-) SetToBag({r}))
                           (+) SetToBag({Rpc("eth_getBlockByNumber", r.sess,
                                         syncPromise)})
              /\ UNCHANGED << sessions, emitted, timers >>
      /\ \A r \in BagToSet(rpcs) : \A reply \in BlockReplies :
         \A now \in Clock :
           BlockAnswered(r, reply, now)
           => /\ ~reply.block
                 => /\ timers' = Append(timers, PollTimer(r.sess))
                    /\ UNCHANGED << sessions, emitted, calls >>
              /\ (reply.block /\ now - reply.timestamp > 60)
                 => /\ timers' = Append(timers, PollTimer(r.sess))
                    /\ emitted'[r.sess]["nodeSyncing"] =
                         emitted[r.sess]["nodeSyncing"] + 1
                    /\ UNCHANGED << sessions, calls >>
              /\ (reply.block /\ now - reply.timestamp <= 60)
                 => /\ UNCHANGED << timers, emitted, calls >>
                    /\ ActiveUnresolved(r.sess)
                       => /\ sessions'[r.sess].resolution = "done"
                          /\ LoopEnded(r.sess)'
    ]_vars

(* ------------------------------- C14 -------------------------------- *)
IsSyncing(reply) == reply.kind = "result" /\ reply.result = "status"

\* a state in which the active session got two sync statuses in a row and is
\* still unresolved, its next poll timer set
C14_Witness ==
  \E s \in Sessions :
     /\ ActiveUnresolved(s)
     /\ emitted[s]["nodeSyncing"] >= 2
     /\ emitted[s][NullProgress] = 0
     /\ \E i \in DOMAIN timers : timers[i] = PollTimer(s)

\* C14: an eth_syncing continuation that gets a sync status settles no
\* promise, emits exactly one 'nodeSyncing', carrying that status, sets
\* exactly one poll timer for the same loop, and issues no call; this is so
\* for each such reply, however many came before.
C14_SyncingKeepsPolling ==
  [][ \A r \in BagToSet(rpcs) : \A reply \in SyncReplies :
        (IsSyncing(reply) /\ SyncingContinuation(r, reply))
        => /\ sessions' = sessions
           /\ emitted' = Emit(emitted, r.sess, "nodeSyncing")
           /\ emitted'[r.sess][NullProgress] = emitted[r.sess][NullProgress]
           /\ timers' = Append(timers, PollTimer(r.sess))
           /\ rpcs' = rpcs (-) SetToBag({r})
           /\ calls' = calls
    ]_vars

(* ------------------------------- C15 -------------------------------- *)
\* the step is a call of stop(), from outside or from the node-state handler
IsStopCall == StopBody(FALSE) \/ StopBody(TRUE)

\* a state after the Connected handler called stop() while no session was in
\* progress and a failed chain was still stored: the chain is still stored,
\* the start() chained to stop() is ready to run, nothing was stopped
C15_Witness ==
  /\ ~syncInProgress
  /\ syncPromise # 0
  /\ pendingStarts > 0
  /\ timers = << >>
  /\ \A s \in Sessions :
        sessions[s].stop = "none" /\ emitted[s]["stopped"] = 0

\* C15: a call of stop() while _syncInProgress is false changes no field, no
\* skip listener, no timer (so no grace delay and no 'stopped' later), no call
\* in flight, no promise and emits nothing; and 'stopped' is only ever emitted
\* at the end of the grace delay of a stop() that found a session in progress.
C15_StopWhenIdleIsNoOp ==
  [][ /\ (~syncInProgress /\ IsStopCall)
         => UNCHANGED << fields, skipListeners, timers, rpcs, sessions,
                         emitted, nextId, calls >>
      /\ \A s \in Sessions :
           emitted'[s]["stopped"] # emitted[s]["stopped"]
           => /\ sessions[s].stop = "delay"
              /\ timers # << >>
              /\ Head(timers).kind = "stop"
    ]_vars

(* ------------------------------- C16 -------------------------------- *)
\* the step is the .finally handler of session s
CleanupOf(s) == sessions[s].pos # "done" /\ sessions'[s].pos = "done"

Idle ==
  /\ ~syncInProgress
  /\ syncPromise = 0
  /\ onSyncDone = 0
  /\ onSyncError = 0
  /\ skipListeners = 0

\* a state in which the first session finished and was cleaned up, and a
\* second session, started afterwards, has a call of its own in flight
C16_Witness ==
  /\ sessions[1].resolution = "done"
  /\ sessions[1].pos = "done"
  /\ sessions[1].stop = "none"
  /\ emitted[1]["finished"] = 1
  /\ ActiveUnresolved(2)
  /\ emitted[2]["starting"] = 1
  /\ CallsInFlight("eth_syncing", 2, rpcs) = 1

\* C16: once the promise of a chain is settled (finished, skipped or failed),
\* its .finally handler eventually runs; the step that runs it leaves the
\* monitor idle (all four fields false, no skip listener); and a start() that
\* finds no stored promise on a connected node creates a chain that did not
\* exist, announces it with 'starting', makes it the active unresolved session
\* and sets its poll timer.
C16_CleanupThenFreshSession ==
  /\ \A s \in Sessions :
        (sessions[s].resolution \in Settled) ~> (sessions[s].pos = "done")
  /\ [][ /\ \A s \in Sessions : CleanupOf(s) => Idle'
         /\ (IsStartCall /\ syncPromise = 0 /\ syncInProgress')
            => \E n \in Sessions :
                  /\ returned' = n
                  /\ sessions[n] = NoSession
                  /\ emitted[n] = NoEvents
                  /\ emitted'[n] = [NoEvents EXCEPT !["starting"] = 1]
                  /\ ActiveUnresolved(n)'
                  /\ timers' = Append(timers, PollTimer(n))
       ]_vars

(* ------------------------------- C17 -------------------------------- *)
\* at most one skip listener, and one only while a session is in progress
ListenerOfActiveSession ==
  /\ skipListeners \in {0, 1}
  /\ skipListeners = 1 => (syncInProgress /\ syncPromise \in Sessions)

\* a state in which a second session has its listener registered after a
\* first session was started and ended
C17_Witness ==
  /\ nextId = 2
  /\ emitted[1]["starting"] = 1
  /\ ActiveUnresolved(2)
  /\ skipListeners = 1

\* C17: there is never more than one skip listener, and there is one only
\* while a session is in progress. The count only goes up in a start() that
\* creates a session, from zero to one; and the cleanup of a chain, a stop()
\* that finds a session in progress and the skip signal itself each leave no
\* listener.
C17_OneSkipListener ==
  [][ /\ ListenerOfActiveSession
      /\ ListenerOfActiveSession'
      /\ skipListeners' > skipListeners
         => /\ IsStartCall
            /\ syncPromise = 0
            /\ skipListeners = 0
            /\ \E n \in Sessions : returned' = n /\ ActiveUnresolved(n)'
            /\ skipListeners' = 1
      /\ (IsStartCall /\ syncPromise = 0 /\ syncInProgress')
         => skipListeners' = skipListeners + 1
      /\ \A s \in Sessions : CleanupOf(s) => skipListeners' = 0
      /\ (syncInProgress /\ IsStopCall) => skipListeners' = 0
      /\ \A s \in Sessions :
           (sessions[s].resolution # "skipped"
              /\ sessions'[s].resolution = "skipped")
           => skipListeners' = 0
    ]_vars

(* ------------------------------- C18 -------------------------------- *)
\* C18: the continuation of a call that a session sent while it was the stored
\* session and that was stopped since, running while a later session is the
\* active unresolved one,
\* settles nothing of the later session and emits nothing while it is active.
C18_OldReplyLeavesNewSession ==
  [][ \A a \in Sessions : \A b \in Sessions :
        ( /\ a # b
          /\ sessions[a].stop # "none"
          /\ ActiveUnresolved(b)
          /\ \E r \in BagToSet(rpcs) :
                /\ r.sess = a
                /\ r.under = a
                /\ CopiesIn(r, rpcs') < CopiesIn(r, rpcs) )
        => /\ sessions'[b] = sessions[b]
           /\ emitted' = emitted
    ]_vars

(* ------------------------------- C19 -------------------------------- *)
\* C19: the .finally handler of a session that was stopped after its promise
\* settled, running while a later session is the active one, leaves the later
\* session's in-progress flag, stored promise, callbacks and skip listener as
\* they are.
C19_CleanupClearsOwnStateOnly ==
  [][ \A a \in Sessions : \A b \in Sessions :
        ( /\ a # b
          /\ sessions[a].stop # "none"
          /\ ActiveUnresolved(b)
          /\ CleanupOf(a) )
        => UNCHANGED << fields, skipListeners >>
    ]_vars

(* ------------------------------- C20 -------------------------------- *)
Started(s) == emitted[s]["starting"] = 1

\* the session of chain s is over and cleaned up, the monitor idle
CleanedUp(s) == sessions[s].pos = "done" /\ Idle

\* C20 as stated: every session started in the quiet environment eventually
\* emits 'finished', and the monitor is idle after its cleanup.
C20_EventuallyFinished ==
  \A s \in Sessions :
     Started(s) ~> (emitted[s]["finished"] = 1 /\ CleanedUp(s))

\* a state in which a session that first got a sync status and then an answer
\* of the caught-up node has emitted 'finished' and was cleaned up
C20_Witness ==
  \E s \in Sessions :
     /\ emitted[s]["nodeSyncing"] >= 1
     /\ sessions[s].resolution = "done"
     /\ emitted[s]["finished"] = 1
     /\ CleanedUp(s)

\* C20: every session started in the quiet environment eventually emits
\* 'finished', unless a reply carried an error other than -32601 and ended it
\* as failed; either way its cleanup runs and leaves the monitor idle.
C20_EventuallyFinishedUnlessError ==
  \A s \in Sessions :
     Started(s) ~>
       /\ CleanedUp(s)
       /\ \/ emitted[s]["finished"] = 1
          \/ /\ sessions[s].err = "UnexpectedRpcPayload"
             /\ emitted[s]["error"] = 1

=============================================================================
